---------------------------- MODULE Spec2Model ----------------------------
(***************************************************************************)
(* Model of the expense tracker's session manager                          *)
(* (src/src/contexts/AuthContext.tsx, AuthProvider) and of its transaction *)
(* entry form (src/src/components/AddExpenseModal.tsx).                    *)
(*                                                                         *)
(* Every awaited call of the identity service or of the document store is  *)
(* a pair of steps: the step that issues the call, and the step in which   *)
(* the call settles (resolves or rejects) and the code after the await     *)
(* runs up to the next await.  Steps of different handlers interleave, as  *)
(* event-loop turns do.                                                    *)
(***************************************************************************)
EXTENDS Integers, Sequences, FiniteSets, Bags

VARIABLES
    \* ---- identity service (firebase/auth) ----
    accounts,       \* uid -> "none" | "unverified" | "verified"
    authUser,       \* auth.currentUser: a User or NULL
    authQueue,      \* onAuthStateChanged notifications not yet delivered
    mailbox,        \* uids a verification email was sent to
    \* ---- document store (firebase/firestore) ----
    docs,           \* users/{uid}: a profile document or NoDoc
    settingsDocs,   \* uids whose users/{uid}/settings/preferences exists
    now,            \* the clock: what the next new Date() returns
    \* ---- AuthProvider state ----
    currentUser,    \* useState<User | null>(null)
    userProfile,    \* useState<UserProfile | null>(null)
    loading,        \* useState(true)
    cbFetches,      \* uid -> number of auth callbacks awaiting fetchUserProfile(uid)
    signInOp,       \* the signIn call in progress
    signUpOp,       \* the signUp call in progress
    logoutOp,       \* the logout call in progress
    updateOp,       \* the updateUserProfile call in progress
    calls,          \* how many operations have been called so far
    \* ---- AddExpenseModal state ----
    isOpen,         \* prop isOpen, owned by the parent
    amount,         \* useState('')  (a sequence of characters)
    type,           \* useState('expense')
    category,       \* useState('')
    description,    \* useState('')
    date,           \* useState(today)
    modalLoading,   \* AddExpenseModal's own useState(false) `loading`
    toast,          \* the last notification handed to react-hot-toast
    pendingWrites   \* addDoc calls in flight, each with its transactionData

authVars    == <<accounts, authUser, authQueue, mailbox>>
storeVars   == <<docs, settingsDocs, now>>
sessionVars == <<currentUser, userProfile, loading, cbFetches>>
opVars      == <<signInOp, signUpOp, logoutOp, updateOp, calls>>
formVars    == <<isOpen, amount, type, category, description, date,
                 modalLoading, toast, pendingWrites>>
vars        == <<authVars, storeVars, sessionVars, opVars, formVars>>

(***************************************************************************)
(* Bounds of the model.                                                    *)
(***************************************************************************)
MaxInflight == 1    \* auth callbacks awaiting a fetch of the same uid
MaxPending  == 1    \* addDoc calls in flight
MaxCalls    == 2    \* calls of the session's operations

(***************************************************************************)
(* Values.                                                                 *)
(***************************************************************************)
NULL  == [null |-> TRUE]
NoDoc == [missing |-> TRUE]

Uids == {"u1", "u2", "u3"}

\* A firebase User, as far as the code reads it: uid and emailVerified.
User(uid, verified) == [uid |-> uid, emailVerified |-> verified]

UidOf(user) == IF user = NULL THEN "" ELSE user.uid

\* The profile fields a caller supplies; email and the timestamps are set
\* by the code.
Fields == {"firstName", "city"}

\* Omit<UserProfile, 'email' | 'createdAt' | 'updatedAt'>
ProfileInputs == {[firstName |-> "A", city |-> "A"]}

\* Partial<UserProfile>: any subset of the fields, each with a new value.
PartialProfiles ==
    UNION {[fs -> {"B"}] : fs \in SUBSET Fields}


(***************************************************************************)
(* Identity service: a change of auth.currentUser notifies the subscribed  *)
(* onAuthStateChanged observer, and only when the uid changes.  The        *)
(* observer is called from a microtask: before the next event-loop turn,   *)
(* that is before any other call settles and before any user event.        *)
(***************************************************************************)
Turn == authQueue = <<>>

\* Bounds the observer's fetches in flight for one uid.
CanNotify(user) ==
    IF user = NULL \/ UidOf(user) = UidOf(authUser) THEN TRUE
    ELSE cbFetches[user.uid] < MaxInflight

Notify(user) ==
    IF UidOf(user) = UidOf(authUser) THEN authQueue
    ELSE Append(authQueue, user)

(***************************************************************************)
(* Document store.                                                         *)
(***************************************************************************)
\* Mutant of MergeDoc: the write without { merge: true } replaces the document.
OverwriteDoc(doc, data) == data

\* setDoc(ref, data, { merge: true }): the fields of data replace those of
\* the document, the document's other fields stay, and a missing document
\* is created from data alone.
MergeDoc(doc, data) ==
    IF doc = NoDoc THEN data
    ELSE [k \in (DOMAIN doc) \cup (DOMAIN data) |->
             IF k \in DOMAIN data THEN data[k] ELSE doc[k]]

\* { ...profile, updatedAt: new Date() }
WithField(rec, key, val) ==
    [k \in (DOMAIN rec) \cup {key} |-> IF k = key THEN val ELSE rec[k]]

\* fetchUserProfile(uid): the value of userProfile once getDoc has settled.
\* found = FALSE is getDoc rejecting: the error is logged and swallowed.
FetchedProfile(uid, found) ==
    IF found /\ docs[uid] # NoDoc THEN docs[uid] ELSE userProfile

(***************************************************************************)
(* Initial state: two registered accounts with their profile documents,    *)
(* one verified and one not; the identity service starts signed out or     *)
(* with the verified account's persisted session, and owes the observer    *)
(* its first notification.                                                 *)
(***************************************************************************)
InitialProfile(uid) ==
    [email |-> uid, firstName |-> "A", city |-> "A",
     createdAt |-> 0, updatedAt |-> 0]

IdleOp == [pc |-> "idle", result |-> "none"]

Today == "today"

Init ==
    /\ accounts = [u \in Uids |->
                     IF u = "u1" THEN "verified"
                     ELSE IF u = "u2" THEN "unverified" ELSE "none"]
    /\ authUser \in {NULL, User("u1", TRUE)}
    /\ authQueue = <<authUser>>
    /\ mailbox = {}
    /\ docs = [u \in Uids |-> IF u = "u3" THEN NoDoc ELSE InitialProfile(u)]
    /\ settingsDocs = {"u1", "u2"}
    /\ now = 1
    /\ currentUser = NULL
    /\ userProfile = NULL
    /\ loading = TRUE
    /\ cbFetches = [u \in Uids |-> 0]
    /\ signInOp = IdleOp
    /\ signUpOp = IdleOp
    /\ logoutOp = IdleOp
    /\ updateOp = IdleOp
    /\ calls = 0
    /\ isOpen = FALSE
    /\ amount = <<>>
    /\ type = "expense"
    /\ category = ""
    /\ description = ""
    /\ date = Today
    /\ modalLoading = FALSE
    /\ toast = "none"
    /\ pendingWrites = EmptyBag

(***************************************************************************)
(* AuthProvider: the onAuthStateChanged observer.                          *)
(***************************************************************************)
\* Mutant of AuthStateChanged: fetchUserProfile is not awaited, and loading is
\* cleared at once.
AuthStateChangedNoAwait ==
    /\ authQueue # <<>>
    /\ LET user == Head(authQueue) IN
        /\ authQueue' = Tail(authQueue)
        /\ currentUser' = user
        /\ loading' = FALSE
        /\ IF user # NULL
           THEN /\ cbFetches' = [cbFetches EXCEPT ![user.uid] = @ + 1]
                /\ UNCHANGED userProfile
           ELSE /\ userProfile' = NULL
                /\ UNCHANGED cbFetches
    /\ UNCHANGED <<accounts, authUser, mailbox, storeVars, opVars, formVars>>

\* The observer runs up to its await: setCurrentUser(user), then either
\* fetchUserProfile(user.uid) is issued, or the profile is cleared and
\* loading is cleared.
AuthStateChanged ==
    /\ authQueue # <<>>
    /\ LET user == Head(authQueue) IN
        /\ authQueue' = Tail(authQueue)
        /\ currentUser' = user
        /\ IF user # NULL
           THEN /\ cbFetches' = [cbFetches EXCEPT ![user.uid] = @ + 1]
                /\ UNCHANGED <<userProfile, loading>>
           ELSE /\ userProfile' = NULL
                /\ loading' = FALSE
                /\ UNCHANGED cbFetches
    /\ UNCHANGED <<accounts, authUser, mailbox, storeVars, opVars, formVars>>

\* The observer's fetchUserProfile(uid) settles; then setLoading(false).
CallbackFetchSettle(uid, found) ==
    /\ Turn
    /\ cbFetches[uid] > 0
    /\ cbFetches' = [cbFetches EXCEPT ![uid] = @ - 1]
    /\ userProfile' = FetchedProfile(uid, found)
    /\ loading' = FALSE
    /\ UNCHANGED <<currentUser, authVars, storeVars, opVars, formVars>>

\* The children are rendered once loading is false (the render gate), and
\* only then can anything call the context's operations.
Rendered == Turn /\ ~loading

CanCall ==
    /\ Rendered
    /\ calls < MaxCalls

(***************************************************************************)
(* signIn(email, password)                                                 *)
(***************************************************************************)
SignIn(email, passwordOk) ==
    /\ CanCall
    /\ calls' = calls + 1
    /\ signInOp.pc \in {"idle", "done"}
    /\ signInOp' = [pc |-> "signInWithEmailAndPassword", result |-> "none",
                    email |-> email, passwordOk |-> passwordOk]
    /\ UNCHANGED <<authVars, storeVars, sessionVars,
                   signUpOp, logoutOp, updateOp, formVars>>

\* signInWithEmailAndPassword settles.  served = FALSE is a failure other
\* than auth/invalid-credential.
SignInAuthSettle(served) ==
    /\ Turn
    /\ signInOp.pc = "signInWithEmailAndPassword"
    /\ LET email == signInOp.email
           accepted == accounts[email] # "none" /\ signInOp.passwordOk
           user == User(email, accounts[email] = "verified")
       IN  IF ~served
           THEN /\ signInOp' = [pc |-> "done", result |-> "Underlying"]
                /\ UNCHANGED <<authUser, authQueue>>
           ELSE IF ~accepted
           THEN /\ signInOp' = [pc |-> "done", result |-> "InvalidCredentials"]
                /\ UNCHANGED <<authUser, authQueue>>
           ELSE /\ CanNotify(user)
                /\ authUser' = user
                /\ authQueue' = Notify(user)
                /\ signInOp' = [pc |-> IF user.emailVerified
                                       THEN "fetchUserProfile" ELSE "signOut",
                                result |-> "none", user |-> user]
    /\ UNCHANGED <<accounts, mailbox, storeVars, sessionVars,
                   signUpOp, logoutOp, updateOp, calls, formVars>>

\* The signOut of an unverified identity settles, and the call throws.
SignInSignOutSettle(served) ==
    /\ Turn
    /\ signInOp.pc = "signOut"
    /\ IF served
       THEN /\ CanNotify(NULL)
            /\ authUser' = NULL
            /\ authQueue' = Notify(NULL)
            /\ signInOp' = [signInOp EXCEPT !.pc = "done",
                                            !.result = "UnverifiedEmail"]
       ELSE /\ signInOp' = [signInOp EXCEPT !.pc = "done",
                                            !.result = "Underlying"]
            /\ UNCHANGED <<authUser, authQueue>>
    /\ UNCHANGED <<accounts, mailbox, storeVars, sessionVars,
                   signUpOp, logoutOp, updateOp, calls, formVars>>

\* The fetchUserProfile of a verified identity settles, and the call returns.
SignInFetchSettle(found) ==
    /\ Turn
    /\ signInOp.pc = "fetchUserProfile"
    /\ userProfile' = FetchedProfile(signInOp.user.uid, found)
    /\ signInOp' = [signInOp EXCEPT !.pc = "done", !.result = "ok"]
    /\ UNCHANGED <<currentUser, loading, cbFetches, authVars, storeVars,
                   signUpOp, logoutOp, updateOp, calls, formVars>>

(***************************************************************************)
(* signUp(email, password, profile)                                        *)
(***************************************************************************)
SignUp(email, profile) ==
    /\ CanCall
    /\ calls' = calls + 1
    /\ signUpOp.pc \in {"idle", "done"}
    /\ signUpOp' = [pc |-> "createUserWithEmailAndPassword", result |-> "none",
                    email |-> email, profile |-> profile]
    /\ UNCHANGED <<authVars, storeVars, sessionVars,
                   signInOp, logoutOp, updateOp, formVars>>

\* { ...profile, email, createdAt: new Date(), updatedAt: new Date() }
NewUserProfile(profile, email) ==
    WithField(WithField(WithField(profile, "email", email),
                        "createdAt", now), "updatedAt", now)

\* createUserWithEmailAndPassword settles; on success the new identity is
\* signed in, the profile is built and its setDoc is issued.
SignUpCreateSettle(served) ==
    /\ Turn
    /\ signUpOp.pc = "createUserWithEmailAndPassword"
    /\ LET email == signUpOp.email
           user == User(email, FALSE)
       IN  IF ~served
           THEN /\ signUpOp' = [pc |-> "done", result |-> "Underlying"]
                /\ UNCHANGED <<accounts, authUser, authQueue, now>>
           ELSE IF accounts[email] # "none"
           THEN /\ signUpOp' = [pc |-> "done", result |-> "EmailAlreadyInUse"]
                /\ UNCHANGED <<accounts, authUser, authQueue, now>>
           ELSE /\ CanNotify(user)
                /\ accounts' = [accounts EXCEPT ![email] = "unverified"]
                /\ authUser' = user
                /\ authQueue' = Notify(user)
                /\ signUpOp' = [pc |-> "setDocProfile", result |-> "none",
                                user |-> user,
                                userProfile |->
                                    NewUserProfile(signUpOp.profile, email)]
                /\ now' = now + 1
    /\ UNCHANGED <<mailbox, docs, settingsDocs, sessionVars,
                   signInOp, logoutOp, updateOp, calls, formVars>>

SignUpFailed == [signUpOp EXCEPT !.pc = "done", !.result = "Underlying"]

\* setDoc(doc(db, 'users', uid), userProfile) settles.
SignUpProfileSettle(served) ==
    /\ Turn
    /\ signUpOp.pc = "setDocProfile"
    /\ IF served
       THEN /\ docs' = [docs EXCEPT ![signUpOp.user.uid] = signUpOp.userProfile]
            /\ signUpOp' = [signUpOp EXCEPT !.pc = "setDocSettings"]
       ELSE /\ signUpOp' = SignUpFailed
            /\ UNCHANGED docs
    /\ UNCHANGED <<authVars, settingsDocs, now, sessionVars,
                   signInOp, logoutOp, updateOp, calls, formVars>>

\* setDoc(doc(db, 'users', uid, 'settings', 'preferences'), {...}) settles.
SignUpSettingsSettle(served) ==
    /\ Turn
    /\ signUpOp.pc = "setDocSettings"
    /\ IF served
       THEN /\ settingsDocs' = settingsDocs \cup {signUpOp.user.uid}
            /\ signUpOp' = [signUpOp EXCEPT !.pc = "sendEmailVerification"]
       ELSE /\ signUpOp' = SignUpFailed
            /\ UNCHANGED settingsDocs
    /\ UNCHANGED <<authVars, docs, now, sessionVars,
                   signInOp, logoutOp, updateOp, calls, formVars>>

\* sendEmailVerification(result.user) settles.
SignUpEmailSettle(served) ==
    /\ Turn
    /\ signUpOp.pc = "sendEmailVerification"
    /\ IF served
       THEN /\ mailbox' = mailbox \cup {signUpOp.user.uid}
            /\ signUpOp' = [signUpOp EXCEPT !.pc = "signOut"]
       ELSE /\ signUpOp' = SignUpFailed
            /\ UNCHANGED mailbox
    /\ UNCHANGED <<accounts, authUser, authQueue, storeVars, sessionVars,
                   signInOp, logoutOp, updateOp, calls, formVars>>

\* Mutant of SignUpSignOutSettle: signUp returns without the sign-out.
SignUpSkipSignOut(served) ==
    /\ Turn
    /\ signUpOp.pc = "signOut"
    /\ IF served
       THEN signUpOp' = [signUpOp EXCEPT !.pc = "done", !.result = "ok"]
       ELSE signUpOp' = SignUpFailed
    /\ UNCHANGED <<authVars, storeVars, sessionVars,
                   signInOp, logoutOp, updateOp, calls, formVars>>

\* signOut(auth) settles, and the call returns.
SignUpSignOutSettle(served) ==
    /\ Turn
    /\ signUpOp.pc = "signOut"
    /\ IF served
       THEN /\ CanNotify(NULL)
            /\ authUser' = NULL
            /\ authQueue' = Notify(NULL)
            /\ signUpOp' = [signUpOp EXCEPT !.pc = "done", !.result = "ok"]
       ELSE /\ signUpOp' = SignUpFailed
            /\ UNCHANGED <<authUser, authQueue>>
    /\ UNCHANGED <<accounts, mailbox, storeVars, sessionVars,
                   signInOp, logoutOp, updateOp, calls, formVars>>

(***************************************************************************)
(* logout()                                                                *)
(***************************************************************************)
Logout ==
    /\ CanCall
    /\ calls' = calls + 1
    /\ logoutOp.pc \in {"idle", "done"}
    /\ logoutOp' = [pc |-> "signOut", result |-> "none"]
    /\ UNCHANGED <<authVars, storeVars, sessionVars,
                   signInOp, signUpOp, updateOp, formVars>>

\* signOut(auth) settles; on success setUserProfile(null).
LogoutSettle(served) ==
    /\ Turn
    /\ logoutOp.pc = "signOut"
    /\ IF served
       THEN /\ CanNotify(NULL)
            /\ authUser' = NULL
            /\ authQueue' = Notify(NULL)
            /\ userProfile' = NULL
            /\ logoutOp' = [pc |-> "done", result |-> "ok"]
       ELSE /\ logoutOp' = [pc |-> "done", result |-> "Underlying"]
            /\ UNCHANGED <<authUser, authQueue, userProfile>>
    /\ UNCHANGED <<accounts, mailbox, storeVars, currentUser, loading,
                   cbFetches, signInOp, signUpOp, updateOp, calls, formVars>>

(***************************************************************************)
(* updateUserProfile(profile)                                              *)
(***************************************************************************)
\* Up to the await of setDoc: the guard, and the payload
\* { ...profile, updatedAt: new Date() }.
UpdateUserProfile(profile) ==
    /\ CanCall
    /\ calls' = calls + 1
    /\ updateOp.pc \in {"idle", "done"}
    /\ IF currentUser = NULL
       THEN /\ updateOp' = [pc |-> "done", result |-> "NotAuthenticated"]
            /\ UNCHANGED now
       ELSE /\ updateOp' = [pc |-> "setDoc", result |-> "none",
                             uid |-> currentUser.uid,
                             updatedProfile |->
                                 WithField(profile, "updatedAt", now)]
            /\ now' = now + 1
    /\ UNCHANGED <<authVars, docs, settingsDocs, sessionVars,
                   signInOp, signUpOp, logoutOp, formVars>>

\* setDoc(userRef, updatedProfile, { merge: true }) settles; on success
\* fetchUserProfile(currentUser.uid) is issued.
UpdateSetDocSettle(served) ==
    /\ Turn
    /\ updateOp.pc = "setDoc"
    /\ IF served
       THEN /\ docs' = [docs EXCEPT ![updateOp.uid] =
                            MergeDoc(@, updateOp.updatedProfile)]
            /\ updateOp' = [updateOp EXCEPT !.pc = "fetchUserProfile"]
       ELSE /\ updateOp' = [updateOp EXCEPT !.pc = "done",
                                            !.result = "Underlying"]
            /\ UNCHANGED docs
    /\ UNCHANGED <<authVars, settingsDocs, now, sessionVars,
                   signInOp, signUpOp, logoutOp, calls, formVars>>

\* The re-fetch settles, and the call returns.
UpdateFetchSettle(found) ==
    /\ Turn
    /\ updateOp.pc = "fetchUserProfile"
    /\ userProfile' = FetchedProfile(updateOp.uid, found)
    /\ updateOp' = [updateOp EXCEPT !.pc = "done", !.result = "ok"]
    /\ UNCHANGED <<currentUser, loading, cbFetches, authVars, storeVars,
                   signInOp, signUpOp, logoutOp, calls, formVars>>

(***************************************************************************)
(* The session manager on its own.                                         *)
(***************************************************************************)
Next ==
    \/ AuthStateChanged
    \/ \E uid \in Uids, found \in BOOLEAN : CallbackFetchSettle(uid, found)
    \/ \E email \in Uids, passwordOk \in BOOLEAN : SignIn(email, passwordOk)
    \/ \E served \in BOOLEAN : SignInAuthSettle(served)
    \/ \E served \in BOOLEAN : SignInSignOutSettle(served)
    \/ \E found \in BOOLEAN : SignInFetchSettle(found)
    \/ \E email \in Uids, profile \in ProfileInputs : SignUp(email, profile)
    \/ \E served \in BOOLEAN : SignUpCreateSettle(served)
    \/ \E served \in BOOLEAN : SignUpProfileSettle(served)
    \/ \E served \in BOOLEAN : SignUpSettingsSettle(served)
    \/ \E served \in BOOLEAN : SignUpEmailSettle(served)
    \/ \E served \in BOOLEAN : SignUpSignOutSettle(served)
    \/ Logout
    \/ \E served \in BOOLEAN : LogoutSettle(served)
    \/ \E profile \in PartialProfiles : UpdateUserProfile(profile)
    \/ \E served \in BOOLEAN : UpdateSetDocSettle(served)
    \/ \E found \in BOOLEAN : UpdateFetchSettle(found)

Spec == Init /\ [][Next]_vars


(***************************************************************************)
(* AddExpenseModal: the transaction entry form.                            *)
(***************************************************************************)
categories ==
    [income  |-> <<"Salary", "Freelance", "Investments", "Business",
                   "Other Income">>,
     expense |-> <<"Food & Dining", "Shopping", "Transport",
                   "Bills & Utilities", "Entertainment", "Healthcare",
                   "Travel", "Other">>]

Range(seq) == {seq[i] : i \in DOMAIN seq}

\* The <option> values of the category <select> as rendered for a type.
CategoryOptions(t) == {""} \cup Range(categories[t])

\* useCurrency().currency
currency == "USD"

\* ---- what the user types and picks ----
AmountTexts ==
    { <<>>,
      <<"a", "b", "c">>,
      <<"-", "5">>,
      <<"0">>,
      <<".">>,
      <<"2", "5", ".", "5", "0">> }

CategoryPicks == {"", "Salary", "Food & Dining"}
Descriptions  == {"", "Lunch"}
Dates         == {Today, "2024-01-15"}

\* ---- parseFloat ----
NaN == [nan |-> TRUE]

DigitVal ==
    [c \in {"0", "1", "2", "3", "4", "5", "6", "7", "8", "9"} |->
        CASE c = "0" -> 0 [] c = "1" -> 1 [] c = "2" -> 2 [] c = "3" -> 3
          [] c = "4" -> 4 [] c = "5" -> 5 [] c = "6" -> 6 [] c = "7" -> 7
          [] c = "8" -> 8 [] c = "9" -> 9]

IsDigit(c) == c \in DOMAIN DigitVal

RECURSIVE SkipWhiteSpace(_, _)
SkipWhiteSpace(s, i) ==
    IF i <= Len(s) /\ s[i] = " " THEN SkipWhiteSpace(s, i + 1) ELSE i

\* The index after the run of decimal digits that starts at i.
RECURSIVE DigitsEnd(_, _)
DigitsEnd(s, i) ==
    IF i <= Len(s) /\ IsDigit(s[i]) THEN DigitsEnd(s, i + 1) ELSE i

\* The number written by the digits s[i], ..., s[j-1], after those of acc.
RECURSIVE DigitsValue(_, _, _, _)
DigitsValue(s, i, j, acc) ==
    IF i >= j THEN acc ELSE DigitsValue(s, i + 1, j, 10 * acc + DigitVal[s[i]])

\* A number num / 10^exp, without trailing zeros in its fraction.
RECURSIVE Number(_, _)
Number(num, exp) ==
    IF exp > 0 /\ num % 10 = 0 THEN Number(num \div 10, exp - 1)
    ELSE [nan |-> FALSE, num |-> num, exp |-> exp]

\* parseFloat(text): leading white space is skipped, then the longest
\* prefix that is a decimal literal (sign, digits, '.', digits) is the
\* number, whatever follows it; no such prefix gives NaN.  Exponents and
\* 'Infinity' are not among the characters of AmountTexts.
parseFloat(s) ==
    LET a      == SkipWhiteSpace(s, 1)
        signed == a <= Len(s) /\ s[a] \in {"-", "+"}
        b      == IF signed THEN a + 1 ELSE a
        c      == DigitsEnd(s, b)
        dot    == c <= Len(s) /\ s[c] = "."
        d      == IF dot THEN DigitsEnd(s, c + 1) ELSE c
        nInt   == c - b
        nFrac  == IF dot THEN d - (c + 1) ELSE 0
        digits == DigitsValue(s, IF dot THEN c + 1 ELSE c, d,
                              DigitsValue(s, b, c, 0))
    IN  IF nInt + nFrac = 0 THEN NaN
        ELSE Number(IF signed /\ s[a] = "-" THEN 0 - digits ELSE digits, nFrac)

\* Mutant of IsRejected: zero passes.
IsRejectedBelowZero(numericAmount) ==
    numericAmount.nan \/ numericAmount.num < 0

\* isNaN(numericAmount) || numericAmount <= 0
IsRejected(numericAmount) ==
    numericAmount.nan \/ numericAmount.num <= 0

\* ---- notifications ----
InvalidAmount == "Please enter a valid amount greater than 0"

Added(t) ==
    IF t = "income" THEN "Income added successfully!"
    ELSE "Expense added successfully!"

FailedToAdd(t) ==
    IF t = "income" THEN "Failed to add income. Please try again."
    ELSE "Failed to add expense. Please try again."

\* ---- the parent opens the modal; the X button resets and closes it ----
Open ==
    /\ Rendered
    /\ ~isOpen
    /\ isOpen' = TRUE
    /\ UNCHANGED <<amount, type, category, description, date, modalLoading,
                   toast, pendingWrites, authVars, storeVars, sessionVars,
                   opVars>>

CloseButton ==
    /\ Rendered
    /\ isOpen
    /\ amount' = <<>>
    /\ category' = ""
    /\ description' = ""
    /\ date' = Today
    /\ type' = "expense"
    /\ isOpen' = FALSE
    /\ UNCHANGED <<modalLoading, toast, pendingWrites, authVars, storeVars,
                   sessionVars, opVars>>

\* ---- the inputs' onChange / onClick handlers ----
SetType(t) ==
    /\ Rendered
    /\ isOpen
    /\ type' = t
    /\ UNCHANGED <<isOpen, amount, category, description, date, modalLoading,
                   toast, pendingWrites, authVars, storeVars, sessionVars,
                   opVars>>

SetAmount(text) ==
    /\ Rendered
    /\ isOpen
    /\ amount' = text
    /\ UNCHANGED <<isOpen, type, category, description, date, modalLoading,
                   toast, pendingWrites, authVars, storeVars, sessionVars,
                   opVars>>

\* The <select> offers the categories of the current type only.
SetCategory(cat) ==
    /\ Rendered
    /\ isOpen
    /\ cat \in CategoryOptions(type)
    /\ category' = cat
    /\ UNCHANGED <<isOpen, amount, type, description, date, modalLoading,
                   toast, pendingWrites, authVars, storeVars, sessionVars,
                   opVars>>

SetDescription(text) ==
    /\ Rendered
    /\ isOpen
    /\ description' = text
    /\ UNCHANGED <<isOpen, amount, type, category, date, modalLoading,
                   toast, pendingWrites, authVars, storeVars, sessionVars,
                   opVars>>

SetDate(d) ==
    /\ Rendered
    /\ isOpen
    /\ date' = d
    /\ UNCHANGED <<isOpen, amount, type, category, description, modalLoading,
                   toast, pendingWrites, authVars, storeVars, sessionVars,
                   opVars>>

\* ---- handleSubmit ----
TransactionData(numericAmount) ==
    [amount      |-> numericAmount,
     type        |-> type,
     category    |-> category,
     description |-> description,
     date        |-> date,
     currency    |-> currency,
     createdAt   |-> now,
     userId      |-> currentUser.uid]

\* handleSubmit up to its await: the guard on currentUser, setLoading(true),
\* the parse and the check of the amount, and then either the rejection
\* (toast, return, finally setLoading(false)) or the call of addDoc.
HandleSubmit ==
    /\ Rendered
    /\ isOpen
    /\ IF currentUser = NULL
       THEN UNCHANGED <<modalLoading, toast, pendingWrites>>
       ELSE LET numericAmount == parseFloat(amount) IN
            IF IsRejected(numericAmount)
            THEN /\ toast' = InvalidAmount
                 /\ modalLoading' = FALSE
                 /\ UNCHANGED pendingWrites
            ELSE /\ BagCardinality(pendingWrites) < MaxPending
                 /\ pendingWrites' =
                        pendingWrites (+) SetToBag({TransactionData(numericAmount)})
                 /\ modalLoading' = TRUE
                 /\ UNCHANGED toast
    /\ UNCHANGED <<isOpen, amount, type, category, description, date,
                   authVars, storeVars, sessionVars, opVars>>

\* Mutant of AddDocSettle: setLoading(false) at the end of the try block, not
\* in finally.
AddDocSettleNoFinally(data, served) ==
    /\ Turn
    /\ BagIn(data, pendingWrites)
    /\ pendingWrites' = pendingWrites (-) SetToBag({data})
    /\ IF served
       THEN /\ toast' = Added(data.type)
            /\ amount' = <<>>
            /\ category' = ""
            /\ description' = ""
            /\ date' = Today
            /\ type' = "expense"
            /\ isOpen' = FALSE
            /\ modalLoading' = FALSE
       ELSE /\ toast' = FailedToAdd(data.type)
            /\ UNCHANGED <<isOpen, amount, type, category, description, date,
                           modalLoading>>
    /\ UNCHANGED <<authVars, storeVars, sessionVars, opVars>>

\* addDoc(transactionRef, transactionData) settles, and handleSubmit runs
\* to its end: success toast, resetForm(), onClose(); or the failure toast;
\* finally setLoading(false).  `type` is the one the handler was called with.
AddDocSettle(data, served) ==
    /\ Turn
    /\ BagIn(data, pendingWrites)
    /\ pendingWrites' = pendingWrites (-) SetToBag({data})
    /\ modalLoading' = FALSE
    /\ IF served
       THEN /\ toast' = Added(data.type)
            /\ amount' = <<>>
            /\ category' = ""
            /\ description' = ""
            /\ date' = Today
            /\ type' = "expense"
            /\ isOpen' = FALSE
       ELSE /\ toast' = FailedToAdd(data.type)
            /\ UNCHANGED <<isOpen, amount, type, category, description, date>>
    /\ UNCHANGED <<authVars, storeVars, sessionVars, opVars>>

(***************************************************************************)
(* The entry form under a session that only starts up.                     *)
(***************************************************************************)
FormNext ==
    \/ AuthStateChanged
    \/ \E uid \in Uids, found \in BOOLEAN : CallbackFetchSettle(uid, found)
    \/ Open
    \/ CloseButton
    \/ \E t \in {"income", "expense"} : SetType(t)
    \/ \E text \in AmountTexts : SetAmount(text)
    \/ \E cat \in CategoryPicks : SetCategory(cat)
    \/ \E text \in Descriptions : SetDescription(text)
    \/ \E d \in Dates : SetDate(d)
    \/ HandleSubmit
    \/ \E data \in BagToSet(pendingWrites), served \in BOOLEAN :
           AddDocSettle(data, served)

FormSpec == Init /\ [][FormNext]_vars

\* The same without the edits of description and date, which no step of
\* handleSubmit reads but to copy them; an addDoc call in flight settles.
FormLiveNext ==
    \/ AuthStateChanged
    \/ \E uid \in Uids, found \in BOOLEAN : CallbackFetchSettle(uid, found)
    \/ Open
    \/ CloseButton
    \/ \E t \in {"income", "expense"} : SetType(t)
    \/ \E text \in AmountTexts : SetAmount(text)
    \/ \E cat \in CategoryPicks : SetCategory(cat)
    \/ HandleSubmit
    \/ \E data \in BagToSet(pendingWrites), served \in BOOLEAN :
           AddDocSettle(data, served)

FormLiveSpec ==
    /\ Init
    /\ [][FormLiveNext]_vars
    /\ WF_vars(\E data \in BagToSet(pendingWrites), served \in BOOLEAN :
                   AddDocSettle(data, served))

(***************************************************************************)
(* Properties of the session manager.                                      *)
(***************************************************************************)
Accepted(op) == "user" \in DOMAIN op

\* No fetch of the observer is in flight.
NoFetches == \A u \in Uids : cbFetches[u] = 0

\* C1: once a signIn of an identity with emailVerified = false, the only
\* call made, has signed the identity out again and failed with the
\* UnverifiedEmail error, the identity service is signed out, no profile of
\* that identity stays cached, and when every auth-state notification has
\* been delivered currentUser is null.
C1_UnverifiedSignInLeavesNoSession ==
    (/\ calls = 1
     /\ signInOp.pc = "done"
     /\ Accepted(signInOp)
     /\ ~signInOp.user.emailVerified
     /\ signInOp.result = "UnverifiedEmail")
    => /\ authUser = NULL
       /\ authQueue = <<>> => currentUser = NULL
       /\ (authQueue = <<>> /\ NoFetches /\ "email" \in DOMAIN userProfile)
              => userProfile.email # signInOp.user.uid

\* C2: the step in which signUp returns successfully leaves the identity
\* service signed out, after the profile document, the settings document and
\* the verification email of the new identity; and whenever every auth-state
\* notification has been delivered, currentUser is the identity service's
\* identity, so it is null then unless a later call signed in.
SignUpReturns ==
    /\ signUpOp.pc = "signOut"
    /\ signUpOp'.pc = "done"
    /\ signUpOp'.result = "ok"

C2_SignUpLeavesSignedOut ==
    /\ [][SignUpReturns =>
            /\ authUser' = NULL
            /\ authQueue' # <<>> =>
                   authQueue'[Len(authQueue')] = NULL
            /\ authQueue' = <<>> => currentUser' = NULL
            /\ accounts[signUpOp.user.uid] = "unverified"
            /\ docs[signUpOp.user.uid] # NoDoc
            /\ signUpOp.user.uid \in settingsDocs
            /\ signUpOp.user.uid \in mailbox]_vars
    /\ [](authQueue = <<>> => currentUser = authUser)

C2_Witness ==
    /\ signUpOp.pc = "done"
    /\ signUpOp.result = "ok"
    /\ calls = 1
    /\ authQueue = <<>>
    /\ cbFetches["u3"] = 0
    /\ currentUser = NULL
    /\ docs["u3"] # NoDoc

\* C3: a profile is cached only while an identity is held.
C3_ProfileOnlyWithIdentity ==
    userProfile # NULL => currentUser # NULL

\* C6: updateUserProfile called without an identity fails with
\* NotAuthenticated and writes nothing; called with one, it sends that
\* identity's document the given fields and the time of the call as
\* updatedAt; when that merge write is applied, those fields take the given
\* values, every other field of the document keeps its value and no other
\* document changes; the profile is then fetched again, and the call returns
\* with the fetched document in the cache (or the cache as it was, when the
\* fetch fails).
UpdateCalled ==
    /\ calls' = calls + 1
    /\ signInOp' = signInOp
    /\ signUpOp' = signUpOp
    /\ logoutOp' = logoutOp

UpdateWritten ==
    /\ updateOp.pc = "setDoc"
    /\ updateOp'.pc = "fetchUserProfile"

UpdateReturns ==
    /\ updateOp.pc = "fetchUserProfile"
    /\ updateOp'.pc = "done"

FieldsOf(doc) == IF doc = NoDoc THEN {} ELSE DOMAIN doc

C6_UpdateMergesGivenFields ==
    /\ [][(UpdateCalled /\ currentUser = NULL) =>
            /\ updateOp'.pc = "done"
            /\ updateOp'.result = "NotAuthenticated"
            /\ docs' = docs]_vars
    /\ [][(UpdateCalled /\ currentUser # NULL) =>
            /\ updateOp'.pc = "setDoc"
            /\ updateOp'.uid = currentUser.uid
            /\ (DOMAIN updateOp'.updatedProfile) \ {"updatedAt"} \subseteq Fields
            /\ updateOp'.updatedProfile.updatedAt = now
            /\ docs' = docs]_vars
    /\ [][UpdateWritten =>
            LET uid  == updateOp.uid
                data == updateOp.updatedProfile
            IN  /\ \A u \in Uids \ {uid} : docs'[u] = docs[u]
                /\ DOMAIN docs'[uid] = FieldsOf(docs[uid]) \cup DOMAIN data
                /\ \A k \in DOMAIN data : docs'[uid][k] = data[k]
                /\ \A k \in FieldsOf(docs[uid]) \ DOMAIN data :
                       docs'[uid][k] = docs[uid][k]]_vars
    /\ [][(updateOp.pc = "setDoc" /\ updateOp'.pc = "done") =>
            /\ updateOp'.result = "Underlying"
            /\ docs' = docs]_vars
    /\ [][UpdateReturns =>
            /\ updateOp'.result = "ok"
            /\ docs' = docs
            /\ userProfile' \in {docs[updateOp.uid], userProfile}]_vars

C6_Witness ==
    /\ updateOp.pc = "done"
    /\ updateOp.result = "ok"
    /\ currentUser = User("u1", TRUE)
    /\ docs["u1"] = [email |-> "u1", firstName |-> "A", city |-> "B",
                     createdAt |-> 0, updatedAt |-> 1]
    /\ userProfile = docs["u1"]

\* C8: loading starts true; while it is true nothing has been called, and
\* either the first notification is still to be delivered or the identity
\* is set and exactly its profile fetch is awaited; loading is cleared only
\* by the observer, for a null identity as it is delivered and for another
\* once its fetch has settled; and once false it stays false.
LoadingCleared ==
    loading /\ ~loading'

C8_LoadingClearedOnceByObserver ==
    /\ loading = TRUE
    /\ [](loading =>
            /\ calls = 0
            /\ signInOp = IdleOp /\ signUpOp = IdleOp
            /\ logoutOp = IdleOp /\ updateOp = IdleOp
            /\ ~isOpen
            /\ \/ /\ authQueue = <<authUser>>
                  /\ currentUser = NULL
                  /\ NoFetches
               \/ /\ authQueue = <<>>
                  /\ currentUser = authUser
                  /\ currentUser # NULL
                  /\ \A u \in Uids :
                       cbFetches[u] = IF u = currentUser.uid THEN 1 ELSE 0)
    /\ [][LoadingCleared =>
            \/ /\ authQueue # <<>>
               /\ Head(authQueue) = NULL
               /\ currentUser' = NULL
               /\ userProfile' = NULL
            \/ /\ authQueue = <<>>
               /\ currentUser' = currentUser
               /\ currentUser # NULL
               /\ cbFetches[currentUser.uid] = 1
               /\ cbFetches'[currentUser.uid] = 0
               /\ userProfile' \in {docs[currentUser.uid], userProfile}]_vars
    /\ [][~loading => ~loading']_vars

C8_Witness ==
    /\ Rendered
    /\ currentUser = User("u1", TRUE)
    /\ userProfile = NULL
    /\ NoFetches
    /\ calls = 0

\* C9: a held identity is a verified one.
C9_SessionIdentityVerified ==
    currentUser # NULL => currentUser.emailVerified

\* C10: a cached profile is the profile document of the held identity.
C10_CachedProfileOfCurrentUser ==
    (currentUser # NULL /\ userProfile # NULL /\ "email" \in DOMAIN userProfile)
    => userProfile.email = currentUser.uid

(***************************************************************************)
(* Properties of the entry form.                                           *)
(***************************************************************************)
\* The submit of the form as it stands, by a signed-in user, with an amount
\* that parseFloat turns into NaN or into a number that is not positive.
InvalidSubmit ==
    /\ HandleSubmit
    /\ currentUser # NULL
    /\ \/ parseFloat(amount) = NaN
       \/ parseFloat(amount).num <= 0

\* C4: a submit by a signed-in user of an amount that does not parse or is
\* not positive shows the InvalidAmount notification, calls no addDoc, and
\* leaves the fields and the open form as they are.
C4_InvalidAmountRejected ==
    [][InvalidSubmit =>
         /\ toast' = InvalidAmount
         /\ pendingWrites' = pendingWrites
         /\ UNCHANGED <<amount, type, category, description, date, isOpen>>]_vars

C4_Witness ==
    /\ toast = InvalidAmount
    /\ currentUser # NULL
    /\ amount = <<"-", "5">>
    /\ type = "income"
    /\ category = "Salary"
    /\ description = "Lunch"
    /\ date = "2024-01-15"
    /\ isOpen
    /\ pendingWrites = EmptyBag

\* C5: a record handed to addDoc with a category chosen carries a category
\* of its own type's list, and a step that changes the type leaves the
\* category field reset to the empty choice.
C5_CategoryOfRecordType ==
    /\ [](\A data \in BagToSet(pendingWrites) :
            data.category # "" =>
                data.category \in Range(categories[data.type]))
    /\ [][type' # type => category' = ""]_vars

\* C7: the rejection of an amount and the settling of an addDoc, resolved
\* or rejected, each leave the submitting flag false; the flag is true only
\* while an addDoc is in flight, set by the submit that calls it; a submit
\* without a signed-in user leaves the flag as it is; and a flag that is set
\* is eventually cleared, the addDoc calls in flight settling.
InFlight == BagCardinality(pendingWrites)

C7_SubmittingFlagCleared ==
    /\ [][InvalidSubmit => ~modalLoading']_vars
    /\ [][InFlight' < InFlight => ~modalLoading']_vars
    /\ [][InFlight' > InFlight => modalLoading']_vars
    /\ [][(HandleSubmit /\ currentUser = NULL) =>
            modalLoading' = modalLoading]_vars
    /\ [](modalLoading => InFlight > 0)
    /\ (modalLoading ~> ~modalLoading)

C7_Witness ==
    /\ toast = FailedToAdd("expense")
    /\ ~modalLoading
    /\ InFlight = 0
    /\ isOpen
    /\ amount = <<"2", "5", ".", "5", "0">>

=============================================================================
